---- MODULE Spec2Model ----
(***************************************************************************)
(* gowc: a wc clone.  count() scans a byte stream in chunks and keeps a    *)
(* one-bit state machine (inWord) across the reads; main() walks the       *)
(* argument list, counts each source, prints a line per source and a       *)
(* total line, and exits with status 1 when a source failed.               *)
(***************************************************************************)
EXTENDS Integers, Sequences, FiniteSets, TLC

\* ------------------------------------------------------------------ bounds
MaxLen == 4      \* longest standard-input stream drawn for the counter
MaxArgs == 3     \* longest argument list drawn for the driver

\* ------------------------------------------------- constants of the program
bufferSize == 65536
width == 8

\* ------------------------------------------------------------- environment
\* Byte values the drawn streams are built from: '\n', ' ', 'a', 0x85
\* (NEL) and 0xA0 (NBSP).
Alphabet == {10, 32, 97, 133, 160}

Min(a, b) == IF a < b THEN a ELSE b

RECURSIVE SeqsUpTo(_)
SeqsUpTo(n) ==
    IF n = 0 THEN {<< >>}
    ELSE LET shorter == SeqsUpTo(n - 1)
         IN shorter \cup {Append(s, b) : s \in {t \in shorter : Len(t) = n - 1}, b \in Alphabet}

\* A stream is the bytes it delivers and the way it ends: "EOF" is clean
\* end-of-stream, "ERR" any other read failure.
Stream(d, e) == [data |-> d, err |-> e]

\* The paths the argument lists are drawn from.  "-" is standard input.
Names == {"-", "a", "b", "missing", "bad"}

\* os.Open: the path "missing" cannot be opened.
Exists(path) == path \in {"a", "b", "bad"}

\* Contents of the files: "a" holds "a\n", "b" holds "b b\n", "bad" delivers
\* "c d" and then fails with a read error.
FileStream(path) ==
    CASE path = "a" -> Stream(<<97, 10>>, "EOF")
      [] path = "b" -> Stream(<<98, 32, 98, 10>>, "EOF")
      [] path = "bad" -> Stream(<<99, 32, 100>>, "ERR")
      [] OTHER -> Stream(<< >>, "EOF")

\* Standard-input streams the driver runs are drawn from.
DriverStdins ==
    { Stream(<< >>, "EOF"), Stream(<<120, 9, 121, 10>>, "EOF"), Stream(<<120>>, "ERR") }

ArgLists == UNION { [1..n -> Names] : n \in 1..MaxArgs }

\* Flag settings as parsed from the command line (before defaulting).
FlagChoices ==
    { [ShowLines |-> FALSE, ShowWords |-> FALSE, ShowBytes |-> FALSE],
      [ShowLines |-> FALSE, ShowWords |-> TRUE, ShowBytes |-> FALSE] }

\* ------------------------------------------------------------------- state
VARIABLES
    filenames,      \* flag.Args()
    flags,          \* Flags
    stdin,          \* the stream behind os.Stdin
    stdinPos,       \* bytes of os.Stdin consumed so far
    pc,             \* position of main
    idx,            \* index of the range loop over filenames
    filename,       \* the loop variable (set to "" for "-")
    file,           \* the *os.File of this iteration, 0 for nil
    fpos,           \* read offset of that file
    counts,         \* count's local Counts
    inWord,         \* count's local inWord
    delivered,      \* bytes the reads of this count call have returned
    n,              \* count's local n: bytes the latest read returned
    nreads,         \* reads of this count call that returned bytes
    cerr,           \* the error count returned: "nil" or "ERR"
    totalCounts,
    filesProcessed,
    errorsOccurred,
    stdout,
    stderr,
    opened,         \* files opened so far, named by argument index
    closeCalls,     \* Close calls made on each of them
    deferred,       \* main's stack of deferred file.Close()
    visited,        \* argument indexes the loop has started, in order
    exitCode        \* -1 while running

vars == << filenames, flags, stdin, stdinPos, pc, idx, filename, file, fpos,
           counts, inWord, delivered, n, nreads, cerr, totalCounts, filesProcessed,
           errorsOccurred, stdout, stderr, opened, closeCalls, deferred,
           visited, exitCode >>

ZeroCounts == [Lines |-> 0, Words |-> 0, Bytes |-> 0]

\* ------------------------------------------------------------------ count
\* unicode.IsSpace(rune(char)): a byte is always in the Latin-1 range, where
\* IsSpace is the fixed switch '\t', '\n', '\v', '\f', '\r', ' ', U+0085, U+00A0.
IsSpace_asciiOnly(r) ==
    r \in {9, 10, 11, 12, 13, 32}

IsSpace(r) ==
    r \in {9, 10, 11, 12, 13, 32, 133, 160}

\* The body of the loop over the bytes of one chunk.
ByteStep_noEnterWord(st, char) ==
    LET c1 == IF char = 10
              THEN [st.counts EXCEPT !.Lines = @ + 1]
              ELSE st.counts
    IN IF IsSpace(char)
       THEN [counts |-> c1, inWord |-> FALSE]
       ELSE IF ~st.inWord
            THEN [counts |-> [c1 EXCEPT !.Words = @ + 1], inWord |-> st.inWord]
            ELSE [counts |-> c1, inWord |-> st.inWord]

ByteStep(st, char) ==
    LET c1 == IF char = 10
              THEN [st.counts EXCEPT !.Lines = @ + 1]
              ELSE st.counts
    IN IF IsSpace(char)
       THEN [counts |-> c1, inWord |-> FALSE]
       ELSE IF ~st.inWord
            THEN [counts |-> [c1 EXCEPT !.Words = @ + 1], inWord |-> TRUE]
            ELSE [counts |-> c1, inWord |-> st.inWord]

\* for i := 0; i < n; i++ { ... }
RECURSIVE ScanBytes(_, _, _)
ScanBytes(buf, i, st) ==
    IF i > Len(buf) THEN st
    ELSE ScanBytes(buf, i + 1, ByteStep(st, buf[i]))

\* One iteration of count's read loop, for a read that returned the bytes
\* chunk and the error err ("nil", "EOF" or "ERR").
CountStep_errFirst(c, iw, chunk, err) ==
    IF err # "nil"
    THEN [counts |-> c, inWord |-> iw, returned |-> TRUE,
          err |-> IF err = "EOF" THEN "nil" ELSE "ERR"]
    ELSE LET st == ScanBytes(chunk, 1,
                     [counts |-> [c EXCEPT !.Bytes = @ + Len(chunk)], inWord |-> iw])
         IN [counts |-> st.counts, inWord |-> st.inWord, returned |-> FALSE, err |-> "nil"]

CountStep_freshInWord(c, iw, chunk, err) ==
    LET st == ScanBytes(chunk, 1,
                [counts |-> [c EXCEPT !.Bytes = @ + Len(chunk)], inWord |-> FALSE])
    IN [counts |-> st.counts, inWord |-> st.inWord,
        returned |-> err # "nil",
        err |-> IF err = "ERR" THEN "ERR" ELSE "nil"]

CountStep(c, iw, chunk, err) ==
    LET st == ScanBytes(chunk, 1,
                [counts |-> [c EXCEPT !.Bytes = @ + Len(chunk)], inWord |-> iw])
    IN [counts |-> st.counts, inWord |-> st.inWord,
        returned |-> err # "nil",
        err |-> IF err = "ERR" THEN "ERR" ELSE "nil"]

\* ----------------------------------------------------------- formatOutput
formatOutput(c, f, name) ==
    [ fields |-> (IF f.ShowLines THEN << [w |-> width, n |-> c.Lines] >> ELSE << >>)
                 \o (IF f.ShowWords THEN << [w |-> width, n |-> c.Words] >> ELSE << >>)
                 \o (IF f.ShowBytes THEN << [w |-> width, n |-> c.Bytes] >> ELSE << >>),
      name |-> name ]

\* -------------------------------------------------------------------- main
DefaultFlags(f) ==
    IF ~f.ShowLines /\ ~f.ShowWords /\ ~f.ShowBytes
    THEN [ShowLines |-> TRUE, ShowWords |-> TRUE, ShowBytes |-> TRUE]
    ELSE f

Init ==
    /\ \/ /\ filenames = << >>
          /\ stdin \in { Stream(d, e) : d \in SeqsUpTo(MaxLen), e \in {"EOF", "ERR"} }
       \/ /\ filenames \in ArgLists
          /\ stdin \in DriverStdins
    /\ flags \in FlagChoices
    /\ stdinPos = 0
    /\ pc = "start"
    /\ idx = 1
    /\ filename = ""
    /\ file = 0
    /\ fpos = 0
    /\ counts = ZeroCounts
    /\ inWord = FALSE
    /\ delivered = << >>
    /\ n = 0
    /\ nreads = 0
    /\ cerr = "nil"
    /\ totalCounts = ZeroCounts
    /\ filesProcessed = 0
    /\ errorsOccurred = FALSE
    /\ stdout = << >>
    /\ stderr = << >>
    /\ opened = {}
    /\ closeCalls = [i \in 1..Len(filenames) |-> 0]
    /\ deferred = << >>
    /\ visited = << >>
    /\ exitCode = -1

\* The locals of a fresh call of count.
EnterCount ==
    /\ counts' = ZeroCounts
    /\ inWord' = FALSE
    /\ delivered' = << >>
    /\ n' = 0
    /\ nreads' = 0
    /\ cerr' = "nil"
    /\ pc' = "count"

\* Flag parsing and defaulting, up to the choice of the input source.
ParseFlags ==
    /\ pc = "start"
    /\ flags' = DefaultFlags(flags)
    /\ pc' = IF Len(filenames) = 0 THEN "stdin" ELSE "loop"
    /\ UNCHANGED << filenames, stdin, stdinPos, idx, filename, file, fpos, counts,
                    inWord, delivered, n, nreads, cerr, totalCounts, filesProcessed,
                    errorsOccurred, stdout, stderr, opened, closeCalls, deferred,
                    visited, exitCode >>

\* No arguments: count(os.Stdin) is called.
StdinBegin ==
    /\ pc = "stdin"
    /\ EnterCount
    /\ file' = 0
    /\ UNCHANGED << filenames, flags, stdin, stdinPos, idx, filename, fpos,
                    totalCounts, filesProcessed, errorsOccurred, stdout, stderr,
                    opened, closeCalls, deferred, visited, exitCode >>

\* The bytes the current reader has not delivered yet, and how it ends.
Pending ==
    IF file = 0
    THEN Stream(SubSeq(stdin.data, stdinPos + 1, Len(stdin.data)), stdin.err)
    ELSE LET s == FileStream(filenames[file])
         IN Stream(SubSeq(s.data, fpos + 1, Len(s.data)), s.err)

\* One br.Read(buf) and the processing of what it returned.  The read
\* returns any number of the pending bytes, at most len(buf); it reports
\* the stream's end (EOF or failure) only with or after the last byte.
Read ==
    /\ pc = "count"
    /\ \E m \in 0..Min(Len(Pending.data), bufferSize), err \in {"nil", "EOF", "ERR"} :
          /\ err # "nil" => (m = Len(Pending.data) /\ err = Pending.err)
          /\ n' = m
          /\ nreads' = IF m > 0 THEN nreads + 1 ELSE nreads
          /\ LET chunk == SubSeq(Pending.data, 1, m)
                 r == CountStep(counts, inWord, chunk, err)
             IN /\ counts' = r.counts
                /\ inWord' = r.inWord
                /\ cerr' = r.err
                /\ pc' = IF r.returned THEN "counted" ELSE "count"
                /\ delivered' = delivered \o chunk
          /\ IF file = 0
             THEN stdinPos' = stdinPos + m /\ fpos' = fpos
             ELSE fpos' = fpos + m /\ stdinPos' = stdinPos
    /\ UNCHANGED << filenames, flags, stdin, idx, filename, file, totalCounts,
                    filesProcessed, errorsOccurred, stdout, stderr, opened,
                    closeCalls, deferred, visited, exitCode >>

\* No arguments, count failed: diagnostic and os.Exit(1).
StdinFail ==
    /\ pc = "counted"
    /\ Len(filenames) = 0
    /\ cerr # "nil"
    /\ stderr' = Append(stderr, [path |-> "", err |-> "read"])
    /\ exitCode' = 1
    /\ pc' = "exited"
    /\ UNCHANGED << filenames, flags, stdin, stdinPos, idx, filename, file, fpos,
                    counts, inWord, delivered, n, nreads, cerr, totalCounts, filesProcessed,
                    errorsOccurred, stdout, opened, closeCalls, deferred, visited >>

\* No arguments, count succeeded: the result line without a name.
StdinOk ==
    /\ pc = "counted"
    /\ Len(filenames) = 0
    /\ cerr = "nil"
    /\ stdout' = Append(stdout, formatOutput(counts, flags, ""))
    /\ filesProcessed' = 1
    /\ totalCounts' = counts
    /\ pc' = "finish"
    /\ UNCHANGED << filenames, flags, stdin, stdinPos, idx, filename, file, fpos,
                    counts, inWord, delivered, n, nreads, cerr, errorsOccurred, stderr,
                    opened, closeCalls, deferred, visited, exitCode >>

\* Loop iteration for the argument "-": the reader is os.Stdin.
ArgStdin ==
    /\ pc = "loop"
    /\ idx <= Len(filenames)
    /\ filenames[idx] = "-"
    /\ filename' = ""
    /\ file' = 0
    /\ visited' = Append(visited, idx)
    /\ EnterCount
    /\ UNCHANGED << filenames, flags, stdin, stdinPos, idx, fpos, totalCounts,
                    filesProcessed, errorsOccurred, stdout, stderr, opened,
                    closeCalls, deferred, exitCode >>

\* Loop iteration whose os.Open fails: diagnostic, mark, continue.
OpenFail_noMark ==
    /\ pc = "loop"
    /\ idx <= Len(filenames)
    /\ filenames[idx] # "-"
    /\ ~Exists(filenames[idx])
    /\ filename' = filenames[idx]
    /\ file' = 0
    /\ visited' = Append(visited, idx)
    /\ stderr' = Append(stderr, [path |-> filenames[idx], err |-> "open"])
    /\ idx' = idx + 1
    /\ UNCHANGED << filenames, flags, stdin, stdinPos, pc, fpos, counts, inWord,
                    delivered, n, nreads, cerr, totalCounts, filesProcessed,
                    errorsOccurred, stdout, opened, closeCalls, deferred, exitCode >>

OpenFail ==
    /\ pc = "loop"
    /\ idx <= Len(filenames)
    /\ filenames[idx] # "-"
    /\ ~Exists(filenames[idx])
    /\ filename' = filenames[idx]
    /\ file' = 0
    /\ visited' = Append(visited, idx)
    /\ stderr' = Append(stderr, [path |-> filenames[idx], err |-> "open"])
    /\ errorsOccurred' = TRUE
    /\ idx' = idx + 1
    /\ UNCHANGED << filenames, flags, stdin, stdinPos, pc, fpos, counts, inWord,
                    delivered, n, nreads, cerr, totalCounts, filesProcessed, stdout, opened,
                    closeCalls, deferred, exitCode >>

\* Loop iteration whose os.Open succeeds: defer file.Close(), call count.
OpenOk ==
    /\ pc = "loop"
    /\ idx <= Len(filenames)
    /\ filenames[idx] # "-"
    /\ Exists(filenames[idx])
    /\ filename' = filenames[idx]
    /\ file' = idx
    /\ fpos' = 0
    /\ visited' = Append(visited, idx)
    /\ opened' = opened \cup {idx}
    /\ deferred' = Append(deferred, idx)
    /\ EnterCount
    /\ UNCHANGED << filenames, flags, stdin, stdinPos, idx, totalCounts,
                    filesProcessed, errorsOccurred, stdout, stderr, closeCalls,
                    exitCode >>

\* count failed inside the loop: diagnostic, mark, close the file, continue.
CountFail_addsPartial ==
    /\ pc = "counted"
    /\ Len(filenames) > 0
    /\ cerr # "nil"
    /\ stderr' = Append(stderr, [path |-> filename, err |-> "read"])
    /\ errorsOccurred' = TRUE
    /\ closeCalls' = IF file # 0
                     THEN [closeCalls EXCEPT ![file] = @ + 1]
                     ELSE closeCalls
    /\ totalCounts' = [Lines |-> totalCounts.Lines + counts.Lines,
                       Words |-> totalCounts.Words + counts.Words,
                       Bytes |-> totalCounts.Bytes + counts.Bytes]
    /\ idx' = idx + 1
    /\ pc' = "loop"
    /\ UNCHANGED << filenames, flags, stdin, stdinPos, filename, file, fpos, counts,
                    inWord, delivered, n, nreads, cerr, filesProcessed, stdout,
                    opened, deferred, visited, exitCode >>

CountFail ==
    /\ pc = "counted"
    /\ Len(filenames) > 0
    /\ cerr # "nil"
    /\ stderr' = Append(stderr, [path |-> filename, err |-> "read"])
    /\ errorsOccurred' = TRUE
    /\ closeCalls' = IF file # 0
                     THEN [closeCalls EXCEPT ![file] = @ + 1]
                     ELSE closeCalls
    /\ idx' = idx + 1
    /\ pc' = "loop"
    /\ UNCHANGED << filenames, flags, stdin, stdinPos, filename, file, fpos, counts,
                    inWord, delivered, n, nreads, cerr, totalCounts, filesProcessed, stdout,
                    opened, deferred, visited, exitCode >>

\* count succeeded inside the loop: result line, totals, counter.
CountOk ==
    /\ pc = "counted"
    /\ Len(filenames) > 0
    /\ cerr = "nil"
    /\ stdout' = Append(stdout, formatOutput(counts, flags, filename))
    /\ totalCounts' = [Lines |-> totalCounts.Lines + counts.Lines,
                       Words |-> totalCounts.Words + counts.Words,
                       Bytes |-> totalCounts.Bytes + counts.Bytes]
    /\ filesProcessed' = filesProcessed + 1
    /\ idx' = idx + 1
    /\ pc' = "loop"
    /\ UNCHANGED << filenames, flags, stdin, stdinPos, filename, file, fpos, counts,
                    inWord, delivered, n, nreads, cerr, errorsOccurred, stderr, opened,
                    closeCalls, deferred, visited, exitCode >>

\* The range loop is over: the total line.
PrintTotal_anyProcessed ==
    /\ pc = "loop"
    /\ idx > Len(filenames)
    /\ stdout' = IF filesProcessed > 0
                 THEN Append(stdout, formatOutput(totalCounts, flags, "total"))
                 ELSE stdout
    /\ pc' = "finish"
    /\ UNCHANGED << filenames, flags, stdin, stdinPos, idx, filename, file, fpos,
                    counts, inWord, delivered, n, nreads, cerr, totalCounts,
                    filesProcessed, errorsOccurred, stderr, opened, closeCalls,
                    deferred, visited, exitCode >>

PrintTotal ==
    /\ pc = "loop"
    /\ idx > Len(filenames)
    /\ stdout' = IF filesProcessed > 1
                 THEN Append(stdout, formatOutput(totalCounts, flags, "total"))
                 ELSE stdout
    /\ pc' = "finish"
    /\ UNCHANGED << filenames, flags, stdin, stdinPos, idx, filename, file, fpos,
                    counts, inWord, delivered, n, nreads, cerr, totalCounts, filesProcessed,
                    errorsOccurred, stderr, opened, closeCalls, deferred, visited,
                    exitCode >>

\* errorsOccurred: os.Exit(1) ends the process; deferred calls do not run.
ExitError ==
    /\ pc = "finish"
    /\ errorsOccurred
    /\ exitCode' = 1
    /\ pc' = "exited"
    /\ UNCHANGED << filenames, flags, stdin, stdinPos, idx, filename, file, fpos,
                    counts, inWord, delivered, n, nreads, cerr, totalCounts, filesProcessed,
                    errorsOccurred, stdout, stderr, opened, closeCalls, deferred,
                    visited >>

\* main returns: the deferred file.Close() calls run, the status is 0.
ReturnMain ==
    /\ pc = "finish"
    /\ ~errorsOccurred
    /\ closeCalls' = [h \in DOMAIN closeCalls |->
                        closeCalls[h] + Cardinality({k \in DOMAIN deferred : deferred[k] = h})]
    /\ deferred' = << >>
    /\ exitCode' = 0
    /\ pc' = "exited"
    /\ UNCHANGED << filenames, flags, stdin, stdinPos, idx, filename, file, fpos,
                    counts, inWord, delivered, n, nreads, cerr, totalCounts, filesProcessed,
                    errorsOccurred, stdout, stderr, opened, visited >>

Next ==
    \/ ParseFlags
    \/ StdinBegin
    \/ Read
    \/ StdinFail
    \/ StdinOk
    \/ ArgStdin
    \/ OpenFail
    \/ OpenOk
    \/ CountFail
    \/ CountOk
    \/ PrintTotal
    \/ ExitError
    \/ ReturnMain

Spec == Init /\ [][Next]_vars

\* ------------------------------------------------------------- properties
\* The whitespace bytes: 0x09-0x0D, 0x20, 0x85, 0xA0.
WhitespaceBytes == (9..13) \cup {32, 133, 160}

\* Number of maximal runs of consecutive non-whitespace bytes of S.
NumRuns(S) ==
    Cardinality({ i \in 1..Len(S) :
                    /\ S[i] \notin WhitespaceBytes
                    /\ (i = 1 \/ S[i - 1] \in WhitespaceBytes) })

\* The Counts of S read in a single chunk that also reports end-of-stream.
CountWhole(S) == CountStep(ZeroCounts, FALSE, S, "EOF").counts

\* Source i of the argument list can be opened and read to a clean end.
SrcOk(i) ==
    IF filenames[i] = "-"
    THEN stdin.err = "EOF"
    ELSE Exists(filenames[i]) /\ FileStream(filenames[i]).err = "EOF"

\* The bytes source i delivers: standard input is consumed by its first use.
SrcData(i) ==
    IF filenames[i] = "-"
    THEN IF \E j \in 1..(i - 1) : filenames[j] = "-" THEN << >> ELSE stdin.data
    ELSE FileStream(filenames[i]).data

RECURSIVE SumOk(_)
SumOk(i) ==
    IF i = 0 THEN ZeroCounts
    ELSE LET rest == SumOk(i - 1)
             c == CountWhole(SrcData(i))
         IN IF SrcOk(i)
            THEN [Lines |-> rest.Lines + c.Lines,
                  Words |-> rest.Words + c.Words,
                  Bytes |-> rest.Bytes + c.Bytes]
            ELSE rest

TotalLines == { i \in DOMAIN stdout : stdout[i].name = "total" }

StillOpen == { h \in opened : closeCalls[h] = 0 }

\* C1: when count returns after a clean end-of-stream, Words is the number
\* of maximal runs of non-whitespace bytes of the stream, whitespace being
\* exactly the bytes 0x09-0x0D, 0x20, 0x85 and 0xA0 (so an empty or an
\* all-whitespace stream gives 0).
C1_WordsAreMaximalRuns ==
    (pc = "counted" /\ cerr = "nil") =>
        /\ counts.Words = NumRuns(delivered)
        /\ \A b \in 0..255 : IsSpace(b) <=> b \in WhitespaceBytes
        /\ (\A i \in 1..Len(delivered) : delivered[i] \in WhitespaceBytes) => counts.Words = 0

C1_Witness ==
    /\ pc = "counted"
    /\ cerr = "nil"
    /\ counts.Words = 2
    /\ Len(delivered) = 3
    /\ delivered[2] \in {133, 160}

\* C2: whatever the way the reads split the stream, count returns the
\* Counts of the same bytes read in one chunk.
C2_ChunkSizeInvariance ==
    pc = "counted" => counts = CountWhole(delivered)

C2_Witness ==
    /\ pc = "counted"
    /\ nreads = Len(delivered)
    /\ nreads >= 3
    /\ n = 1
    /\ \A i \in 1..2 : delivered[i] \notin WhitespaceBytes
    /\ CountWhole(delivered).Words = 1

\* C3: Bytes is the number of bytes the reads have delivered, also after a
\* read that returned bytes together with end-of-stream or an error.
C3_BytesExact ==
    pc \in {"count", "counted"} =>
        /\ counts.Bytes = Len(delivered)
        /\ file # 0 => counts.Bytes = fpos

C3_Witness ==
    /\ pc = "counted"
    /\ cerr = "ERR"
    /\ n > 0
    /\ counts.Bytes = 3

\* C4: for every split of the counted stream into A and B, Lines and Bytes
\* are the sums of those of A and B; Words is the sum exactly when A or B
\* is empty or the boundary is whitespace, and one less otherwise.
C4_Concatenation ==
    pc = "counted" =>
        \A k \in 0..Len(delivered) :
            LET A == SubSeq(delivered, 1, k)
                B == SubSeq(delivered, k + 1, Len(delivered))
                a == CountWhole(A)
                b == CountWhole(B)
                sep == \/ A = << >>
                       \/ B = << >>
                       \/ A[Len(A)] \in WhitespaceBytes
                       \/ B[1] \in WhitespaceBytes
            IN /\ counts.Lines = a.Lines + b.Lines
               /\ counts.Bytes = a.Bytes + b.Bytes
               /\ (counts.Words = a.Words + b.Words) <=> sep
               /\ ~sep => counts.Words = a.Words + b.Words - 1

C4_Witness ==
    /\ pc = "counted"
    /\ Len(delivered) = 2
    /\ delivered[1] \notin WhitespaceBytes
    /\ delivered[2] \notin WhitespaceBytes
    /\ counts.Words = 1

C6_TotalWheneverSeveralFiles ==
    (pc \in {"finish", "exited"} /\ Len(filenames) > 1) => TotalLines # {}

\* C7: the step taken for a named source that fails to open, or whose count
\* failed, adds one diagnostic, sets the error mark, leaves standard output,
\* the running total and the processed counter alone, and moves on to the
\* next argument.
C7_FailedSourceFrame ==
    [][ ( \/ /\ pc = "loop"
             /\ idx <= Len(filenames)
             /\ filenames[idx] # "-"
             /\ ~Exists(filenames[idx])
          \/ /\ pc = "counted"
             /\ Len(filenames) > 0
             /\ file # 0
             /\ cerr # "nil" )
        => /\ Len(stderr') = Len(stderr) + 1
           /\ errorsOccurred'
           /\ stdout' = stdout
           /\ totalCounts' = totalCounts
           /\ filesProcessed' = filesProcessed
           /\ pc' = "loop"
           /\ idx' = idx + 1 ]_vars

C7_Witness ==
    /\ pc = "loop"
    /\ idx = 3
    /\ file # 0
    /\ cerr = "ERR"
    /\ counts.Bytes > 0
    /\ stderr[Len(stderr)].err = "read"
    /\ filesProcessed = 1
    /\ totalCounts.Bytes > 0
    /\ totalCounts.Bytes < 5

\* C8: with arguments, the process ends only after every argument was
\* started in order, with status 1 if some source failed and 0 if none did;
\* without arguments a failed count of standard input ends it with status 1
\* and no result line.
C8_ExitStatus ==
    /\ exitCode # -1 <=> pc = "exited"
    /\ pc = "exited" =>
          IF Len(filenames) > 0
          THEN /\ visited = [i \in 1..Len(filenames) |-> i]
               /\ idx = Len(filenames) + 1
               /\ exitCode = IF \E i \in 1..Len(filenames) : ~SrcOk(i) THEN 1 ELSE 0
          ELSE /\ exitCode = IF stdin.err = "ERR" THEN 1 ELSE 0
               /\ stdin.err = "ERR" => stdout = << >>

C8_Witness ==
    /\ pc = "exited"
    /\ exitCode = 1
    /\ Len(filenames) = 3
    /\ ~SrcOk(1)
    /\ SrcOk(3)
    /\ Len(stdout) >= 1

\* C9: when the process has ended, every file it opened has been closed
\* exactly once.
C9_ClosedExactlyOnce ==
    pc = "exited" => \A h \in opened : closeCalls[h] = 1

\* C10: when the loop starts an argument, no file opened for an earlier
\* argument is still open, and at most one file is open at any time.
C10_ReleasedBeforeNext ==
    /\ (pc = "loop" /\ idx <= Len(filenames)) => StillOpen = {}
    /\ Cardinality(StillOpen) <= 1

====
